---- MODULE Spec2Model ----
(***************************************************************************)
(* Case workflow engine of prenup-backend (src/src/cases/cases.service.ts). *)
(*                                                                         *)
(* The state is the one persisted Case document.  Every service method is  *)
(* translated to an operator that maps the persisted document and the      *)
(* call's arguments to a result record                                     *)
(*     [ok, err, saves, doc, notified]                                     *)
(* where saves is the sequence of documents the method persisted with      *)
(* c.save() in order, doc is the document persisted when the method        *)
(* returns or throws (the argument document when nothing was saved) and    *)
(* notified is the set of notifications the method fired.  An action of    *)
(* the state machine is one whole call of one method.                      *)
(*                                                                         *)
(* Dates are not modelled except status.stepN.submittedAt, which the code  *)
(* reads (unlockCase); it is modelled as set (TRUE) or null (FALSE).       *)
(*                                                                         *)
(* case is the persisted document.  calls holds the service calls that are *)
(* in flight in the concurrent specification ConcSpec, where a call is a   *)
(* findById followed, one step at a time, by its c.save() writes; in Spec  *)
(* every call is one step and calls stays empty.                           *)
(***************************************************************************)
EXTENDS Integers, Sequences, FiniteSets, TLC

VARIABLES case, calls

vars == <<case, calls>>

(***************************************************************************)
(* Bounds of the model and program constants.                              *)
(***************************************************************************)
NumSteps == 7
MaxPayload == 1
MaxAnswers == 1
MaxLawyers == 2

NULL == "null"
Owner == "U1"
Invited == "U2"
Outsider == "U3"
Manager == "M"
\* The account acceptInvite creates for an invitation sent to a second
\* address.
SecondInvited == "U4"

Steps == 1..NumSteps
\* Step payloads written by callers; EmptyPayload is the schema default {}.
EmptyPayload == 0
Payloads == 1..MaxPayload
\* Answer lists a caller submits; EmptyAnswers is the default [].
EmptyAnswers == 0
AnswerLists == 1..MaxAnswers
\* Lawyer ids that resolve to a lawyer record, one id that does not, and the
\* null lawyer reference.
Lawyers == 1..MaxLawyers
UnknownLawyer == MaxLawyers + 1
NoLawyer == 0
\* Invite tokens (crypto.randomBytes), the null token, and the e-mail
\* addresses an invitation is sent to or accepted with.
MaxTokens == 2
Tokens == 1..MaxTokens
NoToken == 0
Emails == {"p2@x", "P2@X", "p3@x"}
EndUsers == {Owner, Invited, Outsider}
Actors == EndUsers \cup {Manager}
WorkflowStatuses == {"DRAFT", "CM", "PAID", "LAWYER"}

(***************************************************************************)
(* Aggregate helpers.                                                      *)
(***************************************************************************)
defaultStepStatus ==
  [submitted |-> FALSE, submittedBy |-> NULL, submittedAt |-> FALSE,
   locked |-> FALSE, lockedBy |-> NULL, unlockedBy |-> NULL]

\* A pre-questionnaire that was never written is absent from the document.
NoPreQuestionnaire == [present |-> FALSE]

makeEmptyPreQuestionnaire ==
  [present |-> TRUE, answers |-> EmptyAnswers, selectedLawyer |-> NoLawyer,
   submitted |-> FALSE, submittedBy |-> NULL, locked |-> FALSE]

emptyApproval ==
  [user1Approved |-> FALSE, user2Approved |-> FALSE, lawyerApproved |-> FALSE,
   caseManagerApproved |-> FALSE, approvedLawyer |-> NoLawyer, approvedBy |-> NULL]

areAllStepsSubmitted(c) == \A i \in Steps : c.status[i].submitted

\* !!(pq && pq.submitted)
pqSubmitted(pq) == pq.present /\ pq.submitted

\* pq?.selectedLawyer
pqSelected(pq) == IF pq.present THEN pq.selectedLawyer ELSE NoLawyer

Accept(saves, notes) ==
  [ok |-> TRUE, err |-> "none", saves |-> saves, doc |-> saves[Len(saves)],
   notified |-> notes]

Reject(c, err) ==
  [ok |-> FALSE, err |-> err, saves |-> <<>>, doc |-> c, notified |-> {}]

(***************************************************************************)
(* create                                                                  *)
(***************************************************************************)
create(ownerId) ==
  [owner |-> ownerId, invitedUser |-> NULL,
   invitedEmail |-> NULL, inviteToken |-> NoToken, inviteTokenExpires |-> FALSE,
   step |-> [i \in Steps |-> EmptyPayload],
   status |-> [i \in Steps |-> defaultStepStatus],
   fullyLocked |-> FALSE, fullyLockedBy |-> NULL,
   preQuestionnaireUser1 |-> NoPreQuestionnaire,
   preQuestionnaireUser2 |-> NoPreQuestionnaire,
   approval |-> emptyApproval,
   assignedCaseManager |-> NULL,
   workflowStatus |-> "DRAFT"]

(***************************************************************************)
(* attachInvitedUser                                                       *)
(***************************************************************************)
attachInvitedUser(c, userId) ==
  Accept(<<[c EXCEPT !.invitedUser = userId,
                     !.inviteToken = NoToken,
                     !.inviteTokenExpires = FALSE]>>, {})

(***************************************************************************)
(* invite                                                                  *)
(***************************************************************************)
\* inviteEmail.toLowerCase()
toLowerCase(email) == IF email = "P2@X" THEN "p2@x" ELSE email

\* token is the value crypto.randomBytes yields.  The invitation mail is
\* sent after the save.
invite(c, inviterId, inviteEmail, token) ==
  Accept(<<[c EXCEPT !.invitedEmail = toLowerCase(inviteEmail),
                     !.inviteToken = token,
                     !.inviteTokenExpires = TRUE]>>, {"invite"})

(***************************************************************************)
(* updateStep                                                              *)
(***************************************************************************)
requiredUser1 == {1, 2, 5, 6, 7}
requiredUser2 == {3, 4}

isSubmitted(c, n) == c.status[n].submitted

\* Variant: the owner's steps are not required.
missingUser1_NotRequired(c) == {}

missingUser1(c) == {n \in requiredUser1 : ~isSubmitted(c, n)}
\* Variant: the invited party's steps are not required.
missingUser2_NotRequired(c) == {}

missingUser2(c) == {n \in requiredUser2 : ~isSubmitted(c, n)}

\* Variant: every actor passes the CM-stage guard.
assignedMatches_Anyone(c, actorId) == TRUE

\* The CM-stage guard: only the assigned case manager passes it.
assignedMatches(c, actorId) ==
  c.assignedCaseManager # NULL /\ c.assignedCaseManager = actorId

\* Variant: saving a step also locks it.
writeStep_AlsoLocks(c, n, data, actorId) ==
  [c EXCEPT !.step[n] = data,
            !.status[n].submitted = TRUE,
            !.status[n].submittedBy = actorId,
            !.status[n].submittedAt = TRUE,
            !.status[n].locked = TRUE,
            !.status[n].lockedBy = actorId]

\* c[key] = data and the step's status marked submitted (in memory).
writeStep(c, n, data, actorId) ==
  [c EXCEPT !.step[n] = data,
            !.status[n].submitted = TRUE,
            !.status[n].submittedBy = actorId,
            !.status[n].submittedAt = TRUE]

\* Variant: the cascade locks the case and step 7 only.
lockAllSteps_OnlyStep7(c, actorId) ==
  [c EXCEPT !.fullyLocked = TRUE,
            !.fullyLockedBy = actorId,
            !.status[7].locked = TRUE,
            !.status[7].lockedBy = actorId]

\* The step-7 cascade: the case and all seven steps are locked (in memory).
lockAllSteps(c, actorId) ==
  [c EXCEPT !.fullyLocked = TRUE,
            !.fullyLockedBy = actorId,
            !.status = [i \in Steps |->
                          [@[i] EXCEPT !.locked = TRUE, !.lockedBy = actorId]]]

\* The notifications updateStep sends after its save.
updateStepNotified(c) ==
  IF c.fullyLocked /\ areAllStepsSubmitted(c)
  THEN {"agreementSubmitted", "caseManagerIntimation", "agreementDocumentLink"}
  ELSE {}

\* Variant: the case-wide lock refuses nobody.
fullyLockedRefuses_Never(c, isPrivileged) == FALSE

\* c.fullyLocked && !isPrivileged
fullyLockedRefuses(c, isPrivileged) == c.fullyLocked /\ ~isPrivileged

\* Variant: the step is saved before the step-7 prerequisites are checked.
updateStep_SavesBeforeChecks(c, stepNumber, data, actorId, isPrivileged) ==
  IF stepNumber \notin Steps THEN Reject(c, "invalid-step")
  ELSE IF c.workflowStatus = "CM" /\ ~isPrivileged /\ ~assignedMatches(c, actorId)
  THEN Reject(c, "forbidden-cm-stage")
  ELSE IF fullyLockedRefuses(c, isPrivileged)
  THEN Reject(c, "forbidden-fully-locked")
  ELSE LET w == writeStep(c, stepNumber, data, actorId) IN
       IF stepNumber = 7 /\ (w.invitedUser = NULL \/ missingUser1(w) # {}
                               \/ missingUser2(w) # {})
       THEN [ok |-> FALSE, err |-> "missing-steps", saves |-> <<w>>, doc |-> w,
             notified |-> {}]
       ELSE IF stepNumber = 7
       THEN Accept(<<lockAllSteps(w, actorId)>>,
                   updateStepNotified(lockAllSteps(w, actorId)))
       ELSE Accept(<<w>>, updateStepNotified(w))

updateStep(c, stepNumber, data, actorId, isPrivileged) ==
  IF stepNumber \notin Steps THEN Reject(c, "invalid-step")
  ELSE IF c.workflowStatus = "CM" /\ ~isPrivileged /\ ~assignedMatches(c, actorId)
  THEN Reject(c, "forbidden-cm-stage")
  ELSE IF fullyLockedRefuses(c, isPrivileged)
  THEN Reject(c, "forbidden-fully-locked")
  ELSE LET w == writeStep(c, stepNumber, data, actorId) IN
       IF stepNumber = 7
       THEN IF w.invitedUser = NULL THEN Reject(c, "invited-user-not-attached")
            ELSE IF missingUser1(w) # {} \/ missingUser2(w) # {}
            THEN Reject(c, "missing-steps")
            ELSE LET l == lockAllSteps(w, actorId) IN
                 Accept(<<l>>, updateStepNotified(l))
       ELSE Accept(<<w>>, updateStepNotified(w))

(***************************************************************************)
(* unlockCase                                                              *)
(***************************************************************************)
\* Variant: unlocking also reopens the pre-questionnaire.
unlockPreQuestionnaire_Reopens(pq) ==
  IF pq.present THEN [pq EXCEPT !.locked = FALSE, !.submitted = FALSE] ELSE pq

unlockPreQuestionnaire(pq) ==
  IF pq.present THEN [pq EXCEPT !.locked = FALSE] ELSE pq

\* Variant: the steps are unlocked but the case-wide lock stays.
unlockAllSteps_KeepsFullLock(c, actorId) ==
  [c EXCEPT !.status = [i \in Steps |->
                          [@[i] EXCEPT !.locked = FALSE, !.lockedBy = NULL,
                                       !.unlockedBy = actorId]]]

\* Variant: unlocking returns the case to the draft stage.
unlockAllSteps_BackToDraft(c, actorId) ==
  [c EXCEPT !.fullyLocked = FALSE,
            !.fullyLockedBy = NULL,
            !.workflowStatus = "DRAFT",
            !.status = [i \in Steps |->
                          [@[i] EXCEPT !.locked = FALSE, !.lockedBy = NULL,
                                       !.unlockedBy = actorId]]]

unlockAllSteps(c, actorId) ==
  [c EXCEPT !.fullyLocked = FALSE,
            !.fullyLockedBy = NULL,
            !.status = [i \in Steps |->
                          [@[i] EXCEPT !.locked = FALSE, !.lockedBy = NULL,
                                       !.unlockedBy = actorId]],
            !.preQuestionnaireUser1 = unlockPreQuestionnaire(@),
            !.preQuestionnaireUser2 = unlockPreQuestionnaire(@)]

\* Variant: a submitted step 7 does not make an unlocked case unlockable.
step7Submitted_Ignored(c) == FALSE

\* Boolean(step7Status.submitted) || Boolean(step7Status.submittedAt)
step7Submitted(c) == c.status[7].submitted \/ c.status[7].submittedAt

unlockCase(c, actorId) ==
  IF ~c.fullyLocked /\ ~step7Submitted(c) THEN Reject(c, "not-locked")
  ELSE Accept(<<unlockAllSteps(c, actorId)>>, {})

(***************************************************************************)
(* submitPreQuestionnaire                                                  *)
(***************************************************************************)
\* The caller's pre-questionnaire is created if absent and marked submitted.
writePreQuestionnaire(pq, answers, actorId) ==
  [(IF pq.present THEN pq ELSE makeEmptyPreQuestionnaire)
     EXCEPT !.answers = answers, !.submitted = TRUE, !.submittedBy = actorId]

\* Variant: the workflow stage is not enforced.
inLawyerStage_Any(c) == TRUE

\* c.workflowStatus === 'LAWYER'
inLawyerStage(c) == c.workflowStatus = "LAWYER"

\* Variant: the transition after both submissions leaves the stage as it is.
completeTransition_Stays(c) == c

\* The transition once both pre-questionnaires are submitted.
completeTransition(c) == [c EXCEPT !.workflowStatus = "CM"]

submitPreQuestionnaire(c, actorId, answers) ==
  IF ~inLawyerStage(c) THEN Reject(c, "forbidden-not-lawyer-stage")
  ELSE LET isOwner == c.owner = actorId
           isInvited == c.invitedUser # NULL /\ c.invitedUser = actorId
       IN
       IF ~isOwner /\ ~isInvited THEN Reject(c, "forbidden-not-party")
       ELSE LET s1 == IF isOwner
                      THEN [c EXCEPT !.preQuestionnaireUser1 =
                                       writePreQuestionnaire(@, answers, actorId)]
                      ELSE [c EXCEPT !.preQuestionnaireUser2 =
                                       writePreQuestionnaire(@, answers, actorId)]
            IN
            IF pqSubmitted(s1.preQuestionnaireUser1)
                 /\ pqSubmitted(s1.preQuestionnaireUser2)
            THEN Accept(<<s1, completeTransition(s1)>>,
                        {"preQuestionnaireUpdate", "firstPhaseCompleted",
                         "caseManagerIntimation"})
            ELSE Accept(<<s1>>, {"preQuestionnaireUpdate"})

(***************************************************************************)
(* selectLawyer                                                            *)
(***************************************************************************)
\* Stamps selectedLawyer on the caller's pre-questionnaire.
stampSelectedLawyer(pq, lawyerId) ==
  [(IF pq.present THEN pq ELSE makeEmptyPreQuestionnaire)
     EXCEPT !.selectedLawyer = lawyerId]

\* Variant: no exclusivity check.
lawyerConflict_NoCheck(otherPq, lawyerId, force) == FALSE

\* The exclusivity rule: the other party already chose this lawyer, no force.
lawyerConflict(otherPq, lawyerId, force) ==
  pqSelected(otherPq) = lawyerId /\ ~force

\* Variant: one submitted pre-questionnaire is enough.
preQuestionnairesSubmitted_Either(c) ==
  pqSubmitted(c.preQuestionnaireUser1) \/ pqSubmitted(c.preQuestionnaireUser2)

\* p1Submitted && p2Submitted
preQuestionnairesSubmitted(c) ==
  pqSubmitted(c.preQuestionnaireUser1) /\ pqSubmitted(c.preQuestionnaireUser2)

selectLawyer(c, actorId, lawyerId, force) ==
  IF ~c.fullyLocked \/ ~areAllStepsSubmitted(c) THEN Reject(c, "not-locked")
  ELSE LET isOwner == c.owner = actorId
           isInvited == c.invitedUser # NULL /\ c.invitedUser = actorId
       IN
       IF ~isOwner /\ ~isInvited THEN Reject(c, "forbidden-not-party")
       ELSE IF ~preQuestionnairesSubmitted(c)
       THEN Reject(c, "pre-questionnaires-not-submitted")
       ELSE IF lawyerId \notin Lawyers THEN Reject(c, "lawyer-not-found")
       ELSE IF isOwner
       THEN IF lawyerConflict(c.preQuestionnaireUser2, lawyerId, force)
            THEN Reject(c, "conflict")
            ELSE Accept(<<[c EXCEPT !.preQuestionnaireUser1 =
                                      stampSelectedLawyer(@, lawyerId)]>>,
                        {"lawyerSelectionUpdate", "lawyerIntroduction"})
       ELSE IF lawyerConflict(c.preQuestionnaireUser1, lawyerId, force)
            THEN Reject(c, "conflict")
            ELSE Accept(<<[c EXCEPT !.preQuestionnaireUser2 =
                                      stampSelectedLawyer(@, lawyerId)]>>,
                        {"lawyerSelectionUpdate", "lawyerIntroduction"})

(***************************************************************************)
(* deleteCaseDataForPartner                                                *)
(***************************************************************************)
\* Variant: the reset also unlocks the step.
resetPartnerStatus_AlsoUnlocks(st) ==
  [st EXCEPT !.submitted = FALSE, !.submittedBy = NULL, !.submittedAt = FALSE,
             !.locked = FALSE, !.lockedBy = NULL]

\* 'status.stepN.submitted': false, submittedBy: null, submittedAt: null
resetPartnerStatus(st) ==
  [st EXCEPT !.submitted = FALSE, !.submittedBy = NULL, !.submittedAt = FALSE]

deleteCaseDataForPartner(c) ==
  Accept(<<[c EXCEPT !.step[3] = EmptyPayload,
                     !.step[4] = EmptyPayload,
                     !.status[3] = resetPartnerStatus(@),
                     !.status[4] = resetPartnerStatus(@)]>>, {})

(***************************************************************************)
(* Approvals                                                               *)
(***************************************************************************)
\* Variant: the lawyer's approval is part of the quorum.
quorumReached_WithLawyer(approval) ==
  approval.user1Approved /\ approval.user2Approved
    /\ approval.caseManagerApproved /\ approval.lawyerApproved

\* user1Approved && user2Approved && caseManagerApproved
quorumReached(approval) ==
  approval.user1Approved /\ approval.user2Approved /\ approval.caseManagerApproved

\* The tail shared by approveCaseByUser and approveCaseByManager: the
\* approval is saved, then the quorum is evaluated on it.
saveAndAdvance(s1) ==
  IF quorumReached(s1.approval)
  THEN Accept(<<s1, [s1 EXCEPT !.workflowStatus = "LAWYER",
                               !.fullyLocked = TRUE]>>,
              {"completePreLawyer"})
  ELSE Accept(<<s1>>, {})

approveCaseByUser(c, actorId) ==
  IF ~c.fullyLocked \/ ~areAllStepsSubmitted(c) THEN Reject(c, "not-locked")
  ELSE LET isOwner == c.owner = actorId
           isInvited == c.invitedUser = actorId
       IN
       IF ~isOwner /\ ~isInvited THEN Reject(c, "forbidden-not-party")
       ELSE IF isOwner
       THEN saveAndAdvance([c EXCEPT !.approval.user1Approved = TRUE])
       ELSE saveAndAdvance([c EXCEPT !.approval.user2Approved = TRUE])

\* Variant: any lawyer may approve.
selected_Any(c, lawyerId) == TRUE

\* The lawyer is the one either party selected.
selected(c, lawyerId) ==
  pqSelected(c.preQuestionnaireUser1) = lawyerId
    \/ pqSelected(c.preQuestionnaireUser2) = lawyerId

approveCaseByLawyer(c, lawyerId) ==
  IF ~selected(c, lawyerId) THEN Reject(c, "forbidden-lawyer-not-selected")
  ELSE Accept(<<[c EXCEPT !.approval.lawyerApproved = TRUE,
                          !.approval.approvedLawyer = lawyerId]>>, {})

approveCaseByManager(c, actorId) ==
  saveAndAdvance([c EXCEPT !.approval.caseManagerApproved = TRUE,
                           !.approval.approvedBy = actorId])

(***************************************************************************)
(* assignCaseManager, changeWorkflowStatus                                 *)
(***************************************************************************)
\* Variant: the manager is assigned but the stage is left as it is.
assignCaseManager_KeepsStage(c, managerId, actorId) ==
  IF managerId = NULL THEN Reject(c, "invalid-manager-id")
  ELSE Accept(<<[c EXCEPT !.assignedCaseManager = managerId]>>,
              {"caseManagerAssigned"})

assignCaseManager(c, managerId, actorId) ==
  IF managerId = NULL THEN Reject(c, "invalid-manager-id")
  ELSE Accept(<<[c EXCEPT !.assignedCaseManager = managerId,
                          !.workflowStatus = "CM"]>>, {"caseManagerAssigned"})

\* Variant: the PAID branch leaves the pre-questionnaires as they are.
reopenPreQuestionnaire_Untouched(pq) == pq

\* The PAID branch resets a pre-questionnaire that exists.
reopenPreQuestionnaire(pq) ==
  IF pq.present THEN [pq EXCEPT !.submitted = FALSE, !.submittedBy = NULL]
  ELSE pq

\* Variant: the PAID branch also withdraws the parties' approvals.
reopenForPaid_ResetsApproval(c, actorId) ==
  [c EXCEPT !.workflowStatus = "PAID",
            !.fullyLocked = FALSE,
            !.fullyLockedBy = NULL,
            !.approval.user1Approved = FALSE,
            !.approval.user2Approved = FALSE]

reopenForPaid(c, actorId) ==
  [c EXCEPT !.workflowStatus = "PAID",
            !.fullyLocked = FALSE,
            !.fullyLockedBy = NULL,
            !.preQuestionnaireUser1 = reopenPreQuestionnaire(@),
            !.preQuestionnaireUser2 = reopenPreQuestionnaire(@),
            !.status = [i \in Steps |->
                          [@[i] EXCEPT !.locked = FALSE, !.lockedBy = NULL,
                                       !.unlockedBy = actorId]]]

forceLawyerStage(c, actorId) ==
  [c EXCEPT !.workflowStatus = "LAWYER",
            !.fullyLocked = TRUE,
            !.fullyLockedBy = actorId]

changeWorkflowStatus(c, status, actorId) ==
  IF status \notin {"CM", "PAID", "LAWYER"} THEN Reject(c, "invalid-status")
  ELSE IF status = "CM"
  THEN Accept(<<[c EXCEPT !.workflowStatus = "CM",
                          !.assignedCaseManager =
                             IF @ = NULL THEN actorId ELSE @]>>,
              {"caseManagerIntimation"})
  ELSE IF status = "PAID"
  THEN Accept(<<reopenForPaid(c, actorId)>>, {"movedToPaid"})
  ELSE Accept(<<forceLawyerStage(c, actorId)>>, {"completePreLawyer"})

(***************************************************************************)
(* Notifications.  A call's effects in the order of its code: its saves    *)
(* and, after them, its calls of the mail service.  r is the call's        *)
(* result and afterFirst the notifications it sends between its first and  *)
(* its second save.                                                        *)
(***************************************************************************)
\* Variant: a failure of the mail service is thrown to the caller.
sendOutcome_Propagates(senderWorks) == IF senderWorks THEN "sent" ELSE "thrown"

\* try { await mailService.send...(...) } catch (e) { }
sendOutcome(senderWorks) == IF senderWorks THEN "sent" ELSE "swallowed"

RECURSIVE mails(_)
mails(labels) ==
  IF labels = {} THEN << >>
  ELSE LET l == CHOOSE x \in labels : TRUE IN
       <<[kind |-> "mail", label |-> l]>> \o mails(labels \ {l})

effects(r, afterFirst) ==
  IF ~r.ok THEN << >>
  ELSE <<[kind |-> "save", doc |-> r.saves[1]]>>
         \o mails(r.notified \cap afterFirst)
         \o (IF Len(r.saves) > 1
             THEN <<[kind |-> "save", doc |-> r.saves[2]]>>
                    \o mails(r.notified \ afterFirst)
             ELSE << >>)

\* The call's outcome when the mail service fails on the notifications in
\* failing: the effects are performed in order until one throws.
RECURSIVE perform(_, _, _)
perform(res, effs, failing) ==
  IF effs = << >> THEN res
  ELSE LET e == Head(effs) IN
       IF e.kind = "save"
       THEN perform([res EXCEPT !.doc = e.doc, !.saves = Append(@, e.doc)],
                    Tail(effs), failing)
       ELSE LET o == sendOutcome(e.label \notin failing) IN
            IF o = "thrown"
            THEN [res EXCEPT !.ok = FALSE, !.err = "notification-failed"]
            ELSE perform([res EXCEPT !.notified =
                                       IF o = "sent" THEN @ \cup {e.label} ELSE @],
                         Tail(effs), failing)

\* The result of the call with result r under a failing mail service.
withFailingSender(c, r, afterFirst, failing) ==
  IF ~r.ok THEN r
  ELSE perform([ok |-> TRUE, err |-> "none", saves |-> << >>, doc |-> c,
                notified |-> {}],
               effects(r, afterFirst), failing)

(***************************************************************************)
(* The HTTP endpoints of CasesController that guard the service calls.     *)
(* A user is its id; role and endUserType are those of its account.        *)
(***************************************************************************)
role(userId) == IF userId = Manager THEN "case_manager" ELSE "end_user"

endUserType(userId) ==
  IF userId \in {Invited, SecondInvited} THEN "user2" ELSE "user1"

isPrivilegedRole(r) == r = "superadmin" \/ r = "admin" \/ r = "case_manager"

END_USER1_STEPS == {1, 2, 5, 6, 7}
\* Variant: the invited user may submit every step.
END_USER2_STEPS_All == Steps

END_USER2_STEPS == {3, 4}

\* POST cases/:id/steps/:stepNumber.  The service is called without its
\* isPrivileged argument, which therefore takes its default, false.
updateStepEndpoint(c, stepNumber, body, userId) ==
  LET isPrivileged == isPrivilegedRole(role(userId)) IN
  IF ~isPrivileged /\ c.owner = userId /\ endUserType(userId) # "user1"
  THEN Reject(c, "forbidden-owner-not-user1")
  ELSE IF ~isPrivileged /\ c.owner = userId /\ stepNumber \notin END_USER1_STEPS
  THEN Reject(c, "forbidden-step")
  ELSE IF ~isPrivileged /\ c.owner # userId /\ c.invitedUser = userId
            /\ endUserType(userId) # "user2"
  THEN Reject(c, "forbidden-invited-not-user2")
  ELSE IF ~isPrivileged /\ c.owner # userId /\ c.invitedUser = userId
            /\ stepNumber \notin END_USER2_STEPS
  THEN Reject(c, "forbidden-step")
  ELSE IF ~isPrivileged /\ c.owner # userId /\ c.invitedUser # userId
  THEN Reject(c, "forbidden")
  ELSE IF c.fullyLocked /\ ~isPrivileged THEN Reject(c, "forbidden-fully-locked")
  ELSE updateStep(c, stepNumber, body, userId, FALSE)

\* POST cases/:id/unlock
unlockCaseEndpoint(c, userId) ==
  IF ~isPrivilegedRole(role(userId)) THEN Reject(c, "forbidden")
  ELSE unlockCase(c, userId)

\* POST cases/:id/pre-questionnaire
submitPreQuestionnaireEndpoint(c, userId, answers) ==
  IF ~(c.fullyLocked /\ areAllStepsSubmitted(c))
       /\ ~isPrivilegedRole(role(userId))
  THEN Reject(c, "forbidden-not-locked")
  ELSE submitPreQuestionnaire(c, userId, answers)

\* POST cases/:id/select-lawyer
selectLawyerEndpoint(c, userId, lawyerId, force) ==
  IF ~(c.fullyLocked /\ areAllStepsSubmitted(c))
       /\ ~isPrivilegedRole(role(userId))
  THEN Reject(c, "forbidden-not-locked")
  ELSE selectLawyer(c, userId, lawyerId, force)

\* POST cases/:id/invite: only a privileged user or the owner invites.
inviteEndpoint(c, userId, email, token) ==
  IF ~(isPrivilegedRole(role(userId)) \/ c.owner = userId)
  THEN Reject(c, "forbidden")
  ELSE invite(c, userId, email, token)

\* POST cases/:id/attach-invited: the caller is attached, no check is made.
attachInvitedUserEndpoint(c, userId) == attachInvitedUser(c, userId)

\* The account usersService.create makes for the accepted address.
createdUser(email) == IF toLowerCase(email) = "p2@x" THEN Invited ELSE SecondInvited

\* AuthService.acceptInvite.  expired tells whether inviteTokenExpires lies
\* before the current time, existing whether an account with the address
\* exists already.
acceptInvite(c, token, email, expired, existing) ==
  IF c.inviteToken = NoToken \/ c.inviteToken # token
  THEN Reject(c, "invalid-token")
  ELSE IF ~c.inviteTokenExpires \/ expired THEN Reject(c, "invite-expired")
  ELSE IF c.invitedEmail = NULL
            \/ toLowerCase(c.invitedEmail) # toLowerCase(email)
  THEN Reject(c, "invite-email-mismatch")
  ELSE IF existing THEN Reject(c, "user-exists")
  ELSE attachInvitedUser(c, createdUser(email))

(***************************************************************************)
(* The state machine: one case, created by Owner.  Each action is one      *)
(* whole call: of the endpoint where the controller has one, of the        *)
(* service method otherwise, the privileged-only methods by Manager.  A    *)
(* rejected call leaves the persisted document as it was.                  *)
(* Step updates are the end users'; a privileged user's update would       *)
(* differ in the audit fields submittedBy and lockedBy only, which no      *)
(* guard of the service reads.                                             *)
(***************************************************************************)
\* No service call is in flight.
NoCalls == << >>

Init == case = create(Owner) /\ calls = NoCalls

AttachInvitedUser ==
  /\ case' = attachInvitedUser(case, Invited).doc
  /\ UNCHANGED calls

UpdateStep ==
  /\ \E n \in Steps, data \in Payloads, u \in EndUsers :
        case' = updateStepEndpoint(case, n, data, u).doc
  /\ UNCHANGED calls

UnlockCase ==
  /\ \E u \in Actors : case' = unlockCaseEndpoint(case, u).doc
  /\ UNCHANGED calls

SubmitPreQuestionnaire ==
  /\ \E u \in Actors, ans \in AnswerLists :
        case' = submitPreQuestionnaireEndpoint(case, u, ans).doc
  /\ UNCHANGED calls

SelectLawyer ==
  /\ \E u \in Actors, l \in Lawyers \cup {UnknownLawyer}, f \in BOOLEAN :
        case' = selectLawyerEndpoint(case, u, l, f).doc
  /\ UNCHANGED calls

DeleteCaseDataForPartner ==
  /\ case' = deleteCaseDataForPartner(case).doc
  /\ UNCHANGED calls

ApproveCaseByUser ==
  /\ \E a \in EndUsers : case' = approveCaseByUser(case, a).doc
  /\ UNCHANGED calls

ApproveCaseByLawyer ==
  /\ \E l \in Lawyers : case' = approveCaseByLawyer(case, l).doc
  /\ UNCHANGED calls

ApproveCaseByManager ==
  /\ case' = approveCaseByManager(case, Manager).doc
  /\ UNCHANGED calls

AssignCaseManager ==
  /\ \E m \in {Manager, NULL} : case' = assignCaseManager(case, m, Manager).doc
  /\ UNCHANGED calls

ChangeWorkflowStatus ==
  /\ \E s \in WorkflowStatuses :
        case' = changeWorkflowStatus(case, s, Manager).doc
  /\ UNCHANGED calls

Next ==
  \/ AttachInvitedUser
  \/ UpdateStep
  \/ UnlockCase
  \/ SubmitPreQuestionnaire
  \/ SelectLawyer
  \/ DeleteCaseDataForPartner
  \/ ApproveCaseByUser
  \/ ApproveCaseByLawyer
  \/ ApproveCaseByManager
  \/ AssignCaseManager
  \/ ChangeWorkflowStatus

Spec == Init /\ [][Next]_vars

(***************************************************************************)
(* Concurrent calls.  A service call loads the document (findById), runs   *)
(* its checks and mutations on the loaded copy and persists it with        *)
(* c.save(), once or twice; calls on the same case interleave at these     *)
(* database operations.  c.save() is Mongoose's Document.save: it writes   *)
(* the paths of the copy that were modified since it was loaded or last    *)
(* saved ($set of the modified paths), and the service's schema sets no    *)
(* optimisticConcurrency, so no version is compared.  The methods are      *)
(* called as the controller calls them: the owner writes END_USER1_STEPS,  *)
(* the invited user END_USER2_STEPS, isPrivileged is false.                *)
(***************************************************************************)
\* Number of overlapping calls, and the payloads they write.
MaxCalls == 2
MaxEdit == 2

Callers == 1..MaxCalls
Edits == 1..MaxEdit

\* One modified path: the copy's value if the call changed it, else the
\* database's.
commitPath(db, base, mem) == IF mem # base THEN mem ELSE db

commitFields(db, base, mem) ==
  [f \in DOMAIN mem |-> commitPath(db[f], base[f], mem[f])]

\* A pre-questionnaire the call created is written whole, an existing one
\* path by path.
commitPreQuestionnaire(db, base, mem) ==
  IF ~mem.present THEN db
  ELSE IF ~base.present \/ ~db.present THEN (IF mem # base THEN mem ELSE db)
  ELSE commitFields(db, base, mem)

\* Variant: save() overwrites the whole document with the call's copy.
commit_WholeDocument(db, base, mem) == mem

\* The document after c.save() of the copy mem, loaded or last saved as
\* base, on the database document db.
commit(db, base, mem) ==
  [owner |-> commitPath(db.owner, base.owner, mem.owner),
   invitedUser |-> commitPath(db.invitedUser, base.invitedUser, mem.invitedUser),
   invitedEmail |->
      commitPath(db.invitedEmail, base.invitedEmail, mem.invitedEmail),
   inviteToken |-> commitPath(db.inviteToken, base.inviteToken, mem.inviteToken),
   inviteTokenExpires |->
      commitPath(db.inviteTokenExpires, base.inviteTokenExpires,
                 mem.inviteTokenExpires),
   step |-> [i \in Steps |-> commitPath(db.step[i], base.step[i], mem.step[i])],
   status |-> [i \in Steps |->
                 commitFields(db.status[i], base.status[i], mem.status[i])],
   fullyLocked |-> commitPath(db.fullyLocked, base.fullyLocked, mem.fullyLocked),
   fullyLockedBy |->
      commitPath(db.fullyLockedBy, base.fullyLockedBy, mem.fullyLockedBy),
   preQuestionnaireUser1 |->
      commitPreQuestionnaire(db.preQuestionnaireUser1, base.preQuestionnaireUser1,
                             mem.preQuestionnaireUser1),
   preQuestionnaireUser2 |->
      commitPreQuestionnaire(db.preQuestionnaireUser2, base.preQuestionnaireUser2,
                             mem.preQuestionnaireUser2),
   approval |-> commitFields(db.approval, base.approval, mem.approval),
   assignedCaseManager |->
      commitPath(db.assignedCaseManager, base.assignedCaseManager,
                 mem.assignedCaseManager),
   workflowStatus |->
      commitPath(db.workflowStatus, base.workflowStatus, mem.workflowStatus)]

\* The documents the concurrent calls start from, each reached by a run of
\* the service from the created case.
Attached == attachInvitedUser(create(Owner), Invited).doc

RECURSIVE submitSteps(_, _, _)
submitSteps(c, ns, actorId) ==
  IF ns = {} THEN c
  ELSE LET n == CHOOSE x \in ns : \A y \in ns : x <= y IN
       submitSteps(updateStep(c, n, 1, actorId, FALSE).doc, ns \ {n}, actorId)

\* Steps 1..6 submitted, step 7 not yet.
ReadyToSeal ==
  submitSteps(submitSteps(Attached, {1, 2, 5, 6}, Owner), END_USER2_STEPS, Invited)

Sealed == updateStep(ReadyToSeal, 7, 1, Owner, FALSE).doc

OwnerApproved == approveCaseByUser(Sealed, Owner).doc

LawyerStage ==
  approveCaseByManager(approveCaseByUser(OwnerApproved, Invited).doc, Manager).doc

\* Both pre-questionnaires submitted: lawyers can be selected.
Questioned ==
  submitPreQuestionnaire(submitPreQuestionnaire(LawyerStage, Owner, 1).doc,
                         Invited, 1).doc

StartDocs == {Attached, ReadyToSeal, Sealed, OwnerApproved, Questioned}

\* A call that has loaded the document: its arguments, the copy as loaded,
\* the copy as loaded or last saved (base), the copies it has yet to save
\* (pending) and whether its checks accepted it.
started(op, actorId, stepNumber, data, lawyerId, force, base, r) ==
  [op |-> op, actor |-> actorId, step |-> stepNumber, data |-> data,
   lawyer |-> lawyerId, force |-> force,
   ok |-> r.ok, loaded |-> base, base |-> base, pending |-> r.saves, saved |-> 0]

returned(call) == call.pending = << >>

\* The step argument of a call that is not a step update.
NoStep == 0

ConcInit == case \in StartDocs /\ calls = NoCalls

\* A call arrives: it loads the document and runs its checks on the copy.
CallUpdateStep ==
  /\ Len(calls) < MaxCalls
  /\ \E a \in {Owner, Invited}, data \in Edits :
        \E n \in (IF a = Owner THEN END_USER1_STEPS ELSE END_USER2_STEPS) :
           calls' = Append(calls,
                       started("updateStep", a, n, data, NoLawyer, FALSE, case,
                               updateStep(case, n, data, a, FALSE)))
  /\ UNCHANGED case

CallSelectLawyer ==
  /\ Len(calls) < MaxCalls
  /\ \E a \in {Owner, Invited}, l \in Lawyers, f \in BOOLEAN :
        calls' = Append(calls,
                    started("selectLawyer", a, NoStep, EmptyPayload, l, f, case,
                            selectLawyer(case, a, l, f)))
  /\ UNCHANGED case

CallApproveCaseByUser ==
  /\ Len(calls) < MaxCalls
  /\ \E a \in {Owner, Invited} :
        calls' = Append(calls,
                    started("approveCaseByUser", a, NoStep, EmptyPayload, NoLawyer,
                            FALSE, case, approveCaseByUser(case, a)))
  /\ UNCHANGED case

CallApproveCaseByManager ==
  /\ Len(calls) < MaxCalls
  /\ calls' = Append(calls,
                  started("approveCaseByManager", Manager, NoStep, EmptyPayload,
                          NoLawyer, FALSE, case, approveCaseByManager(case, Manager)))
  /\ UNCHANGED case

\* The next c.save() of a call in flight.
Save ==
  \E p \in 1..Len(calls) :
     /\ ~returned(calls[p])
     /\ LET mem == Head(calls[p].pending) IN
        /\ case' = commit(case, calls[p].base, mem)
        /\ calls' = [calls EXCEPT ![p].base = mem,
                                  ![p].pending = Tail(@),
                                  ![p].saved = @ + 1]

ConcNext ==
  \/ CallUpdateStep
  \/ CallSelectLawyer
  \/ CallApproveCaseByUser
  \/ CallApproveCaseByManager
  \/ Save

ConcSpec == ConcInit /\ [][ConcNext]_vars

(***************************************************************************)
(* The invitation of the second party: the owner or a privileged user      *)
(* invites an address, the invited person accepts with the token           *)
(* (AuthService.acceptInvite), and any signed-in user may call the         *)
(* attach-invited endpoint.  The parties update their steps meanwhile.     *)
(***************************************************************************)
Invite ==
  /\ \E u \in Actors, email \in Emails, token \in Tokens :
        case' = inviteEndpoint(case, u, email, token).doc
  /\ UNCHANGED calls

AcceptInvite ==
  /\ \E token \in Tokens, email \in Emails, expired \in BOOLEAN,
        existing \in BOOLEAN :
        case' = acceptInvite(case, token, email, expired, existing).doc
  /\ UNCHANGED calls

AttachInvitedUserByEndpoint ==
  /\ \E u \in Actors : case' = attachInvitedUserEndpoint(case, u).doc
  /\ UNCHANGED calls

InviteNext ==
  \/ Invite
  \/ AcceptInvite
  \/ AttachInvitedUserByEndpoint
  \/ UpdateStep

InviteSpec == Init /\ [][InviteNext]_vars

(***************************************************************************)
(* Properties.  A property of one call is stated on the result the         *)
(* method's operator yields in the current (reachable) persisted document. *)
(***************************************************************************)
Parties(c) == {c.owner} \cup (IF c.invitedUser = NULL THEN {} ELSE {c.invitedUser})

OtherParty(a) == IF a = Owner THEN Invited ELSE Owner

Steps1To6Submitted(c) == \A n \in 1..6 : c.status[n].submitted

AllStepsLocked(c) == \A i \in Steps : c.status[i].locked

\* C1: in every persisted state, fullyLocked = true implies that all seven
\* steps have locked = true.
C1_NoPartialFullLock == case.fullyLocked => AllStepsLocked(case)

\* C2: with invitedUser attached and steps 1..6 submitted, an accepted
\* updateStep(7) persists, in one write, fullyLocked = true, fullyLockedBy =
\* actor and locked = true, lockedBy = actor on all seven steps.
C2_Step7Cascade ==
  \A a \in Actors, p \in BOOLEAN, data \in Payloads :
     LET r == updateStep(case, 7, data, a, p) IN
     (case.invitedUser # NULL /\ Steps1To6Submitted(case) /\ r.ok) =>
        /\ Len(r.saves) = 1
        /\ r.doc.fullyLocked
        /\ r.doc.fullyLockedBy = a
        /\ \A i \in Steps : r.doc.status[i].locked /\ r.doc.status[i].lockedBy = a
        /\ r.doc.status[7].submitted /\ r.doc.step[7] = data

\* C2 witness: the owner's step 7 has sealed a case whose steps 3 and 4 the
\* invited user submitted.
C2_Witness ==
  /\ case.fullyLocked /\ case.fullyLockedBy = Owner
  /\ \A i \in Steps : case.status[i].locked /\ case.status[i].lockedBy = Owner
  /\ case.status[7].submittedBy = Owner
  /\ case.status[3].submittedBy = Invited /\ case.status[4].submittedBy = Invited

\* C3: updateStep(7) is rejected when invitedUser is not attached or one of
\* steps 1..6 is not submitted, and the rejection persists nothing: the
\* document, step 7's payload and status included, is unchanged.
C3_Step7RejectedUnchanged ==
  \A a \in Actors, p \in BOOLEAN, data \in Payloads :
     LET r == updateStep(case, 7, data, a, p) IN
     (case.invitedUser = NULL \/ ~Steps1To6Submitted(case)) =>
        ~r.ok /\ r.saves = <<>> /\ r.doc = case

\* C3 witness: an unlocked case outside the CM stage, invited user attached,
\* where the owner's step 7 is refused because steps are missing.
C3_Witness ==
  /\ ~case.fullyLocked /\ case.workflowStatus = "DRAFT"
  /\ case.invitedUser = Invited
  /\ case.status[1].submitted /\ ~case.status[3].submitted
  /\ ~case.status[7].submitted /\ case.step[7] = EmptyPayload
  /\ updateStep(case, 7, 1, Owner, FALSE).err = "missing-steps"

ApprovalOrders ==
  {<<Owner, Invited, Manager>>, <<Owner, Manager, Invited>>,
   <<Invited, Owner, Manager>>, <<Invited, Manager, Owner>>,
   <<Manager, Owner, Invited>>, <<Manager, Invited, Owner>>}

ApplyApproval(c, who) ==
  IF who = Manager THEN approveCaseByManager(c, who)
  ELSE approveCaseByUser(c, who)

\* C4: from a fully locked, fully submitted case without approvals, the
\* owner's, the invited user's and the manager's approvals, in any of the six
\* orders, leave workflowStatus unchanged after the first and the second and
\* set workflowStatus = LAWYER with fullyLocked on the third; the lawyer's
\* approval is not needed and never changes workflowStatus.
C4_QuorumAnyOrder ==
  /\ (/\ case.fullyLocked /\ areAllStepsSubmitted(case)
      /\ ~case.approval.user1Approved /\ ~case.approval.user2Approved
      /\ ~case.approval.caseManagerApproved)
     => \A o \in ApprovalOrders :
           LET r1 == ApplyApproval(case, o[1])
               r2 == ApplyApproval(r1.doc, o[2])
               r3 == ApplyApproval(r2.doc, o[3])
           IN /\ r1.ok /\ r2.ok /\ r3.ok
              /\ r1.doc.workflowStatus = case.workflowStatus
              /\ r2.doc.workflowStatus = case.workflowStatus
              /\ "completePreLawyer" \notin (r1.notified \cup r2.notified)
              /\ r3.doc.workflowStatus = "LAWYER"
              /\ r3.doc.fullyLocked
  /\ \A l \in Lawyers :
        LET r == approveCaseByLawyer(case, l) IN
        /\ r.doc.workflowStatus = case.workflowStatus
        /\ r.notified = {}

\* C4 witness: the three approvals are recorded on a case sealed by the owner,
\* workflowStatus is LAWYER and no lawyer has approved.
C4_Witness ==
  /\ case.workflowStatus = "LAWYER"
  /\ case.fullyLocked /\ case.fullyLockedBy = Owner
  /\ case.approval.user1Approved /\ case.approval.user2Approved
  /\ case.approval.caseManagerApproved
  /\ ~case.approval.lawyerApproved
  /\ ~case.preQuestionnaireUser1.present /\ ~case.preQuestionnaireUser2.present

\* C5: once the quorum has fired, a repeated approval by the owner does not
\* write workflowStatus again and does not fire the pre-lawyer notification
\* again, whatever workflowStatus has become.
C5_ReapprovalIsNoOp ==
  (quorumReached(case.approval) /\ case.fullyLocked /\ areAllStepsSubmitted(case))
     => LET r == approveCaseByUser(case, Owner) IN
        /\ Len(r.saves) <= 1
        /\ r.doc.workflowStatus = case.workflowStatus
        /\ "completePreLawyer" \notin r.notified

CmStagePasses(c, a) == c.workflowStatus # "CM" \/ c.assignedCaseManager = a

\* C7 as stated: after a successful unlockCase, updateStep on any step by a
\* non-privileged party of the case succeeds, in whatever state the unlock
\* was performed.
C7_UpdateAfterUnlockSucceeds ==
  LET u == unlockCase(case, Manager) IN
  u.ok => \A n \in Steps, data \in Payloads, a \in Parties(u.doc) :
             updateStep(u.doc, n, data, a, FALSE).ok

\* C7 as amended: after a successful unlockCase, updateStep by a
\* non-privileged party is never refused because of a lock; it succeeds
\* exactly when the CM-stage guard lets the actor through and, for step 7,
\* invitedUser is attached and steps 1..6 are submitted.
C7_UpdateAfterUnlockNotLocked ==
  LET u == unlockCase(case, Manager) IN
  u.ok => \A n \in Steps, data \in Payloads, a \in Parties(u.doc) :
             LET r == updateStep(u.doc, n, data, a, FALSE) IN
             /\ r.err # "forbidden-fully-locked"
             /\ r.ok <=> /\ CmStagePasses(u.doc, a)
                         /\ n = 7 => /\ u.doc.invitedUser # NULL
                                     /\ Steps1To6Submitted(u.doc)

\* C7 witness: a sealed case that the manager unlocked in the DRAFT stage
\* (the unlock audit is stamped, every lock is cleared), where the owner's
\* updates of step 1 and of step 7 are accepted.
C7_Witness ==
  /\ case.workflowStatus = "DRAFT"
  /\ ~case.fullyLocked
  /\ \A i \in Steps : ~case.status[i].locked /\ case.status[i].unlockedBy = Manager
  /\ areAllStepsSubmitted(case)
  /\ updateStep(case, 1, 1, Owner, FALSE).ok
  /\ updateStep(case, 7, 1, Owner, FALSE).ok

\* C8: changeWorkflowStatus(PAID) sets workflowStatus = PAID, fullyLocked =
\* false, locked = false on all seven steps, submitted = false on each
\* pre-questionnaire that exists, and leaves every step payload unchanged.
C8_PaidReopens ==
  \A a \in Actors :
     LET r == changeWorkflowStatus(case, "PAID", a) IN
     /\ r.ok /\ Len(r.saves) = 1
     /\ r.doc.workflowStatus = "PAID"
     /\ ~r.doc.fullyLocked
     /\ \A i \in Steps : ~r.doc.status[i].locked
     /\ ~pqSubmitted(r.doc.preQuestionnaireUser1)
     /\ ~pqSubmitted(r.doc.preQuestionnaireUser2)
     /\ r.doc.preQuestionnaireUser1.present = case.preQuestionnaireUser1.present
     /\ r.doc.preQuestionnaireUser2.present = case.preQuestionnaireUser2.present
     /\ r.doc.step = case.step

\* C8 witness: a case in PAID whose steps all carry a payload and are
\* unlocked, with both pre-questionnaires present, answered and reset.
C8_Witness ==
  /\ case.workflowStatus = "PAID"
  /\ ~case.fullyLocked
  /\ \A i \in Steps : case.step[i] # EmptyPayload /\ ~case.status[i].locked
                        /\ case.status[i].unlockedBy = Manager
  /\ case.preQuestionnaireUser1.present /\ case.preQuestionnaireUser2.present
  /\ case.preQuestionnaireUser1.answers # EmptyAnswers
  /\ case.preQuestionnaireUser2.answers # EmptyAnswers
  /\ ~case.preQuestionnaireUser1.submitted /\ ~case.preQuestionnaireUser2.submitted

\* The step-7 cascade sealed the case: steps 1,2,5,6,7 submitted by the owner,
\* 3,4 by the invited user, everything locked by the owner.
SealedByCascade(c) ==
  /\ c.fullyLocked /\ c.fullyLockedBy = c.owner
  /\ \A i \in requiredUser1 : c.status[i].submitted /\ c.status[i].submittedBy = c.owner
  /\ \A i \in requiredUser2 : c.status[i].submitted /\ c.status[i].submittedBy = c.invitedUser
  /\ \A i \in Steps : c.status[i].locked /\ c.status[i].lockedBy = c.owner

\* C9: once the step-7 cascade has fully locked a fully submitted case,
\* submitPreQuestionnaire by the owner and then by the invited user both
\* succeed and leave both pre-questionnaires submitted.
C9_PreQuestionnaireAfterCascade ==
  SealedByCascade(case) =>
     \A ans \in AnswerLists :
        LET r1 == submitPreQuestionnaireEndpoint(case, case.owner, ans)
            r2 == submitPreQuestionnaireEndpoint(r1.doc, case.invitedUser, ans)
        IN /\ r1.ok /\ r2.ok
           /\ pqSubmitted(r2.doc.preQuestionnaireUser1)
           /\ pqSubmitted(r2.doc.preQuestionnaireUser2)

\* C10: whenever a submitPreQuestionnaire call is accepted, all seven steps
\* are submitted and the owner's, the invited user's and the case manager's
\* approvals have been given.
C10_PreQuestionnaireOnlyAfterApproval ==
  \A a \in Actors, ans \in AnswerLists :
     submitPreQuestionnaire(case, a, ans).ok =>
        /\ areAllStepsSubmitted(case)
        /\ case.approval.user1Approved /\ case.approval.user2Approved
        /\ case.approval.caseManagerApproved

\* No step is submitted, the case is not fully locked and is still a draft.
FreshCase(c) ==
  /\ ~c.fullyLocked /\ c.workflowStatus = "DRAFT"
  /\ \A i \in Steps : ~c.status[i].submitted

\* C11: submitPreQuestionnaire on a freshly created case (no step submitted,
\* not fully locked, workflowStatus DRAFT) is rejected, by the endpoint and by
\* the service, for every caller, and persists nothing: the document is
\* unchanged and holds no pre-questionnaire record.
C11_FreshCaseRefusesPreQuestionnaire ==
  FreshCase(case) =>
     \A a \in Actors, ans \in AnswerLists :
        LET r == submitPreQuestionnaire(case, a, ans)
            e == submitPreQuestionnaireEndpoint(case, a, ans)
        IN /\ ~r.ok /\ r.saves = <<>> /\ r.doc = case
           /\ ~e.ok /\ e.saves = <<>> /\ e.doc = case
           /\ ~r.doc.preQuestionnaireUser1.present
           /\ ~r.doc.preQuestionnaireUser2.present

\* C11 witness: a fresh case with the invited user attached, where the
\* owner's and the invited user's submissions are refused.
C11_Witness ==
  /\ FreshCase(case) /\ case.invitedUser = Invited
  /\ ~case.preQuestionnaireUser1.present /\ ~case.preQuestionnaireUser2.present
  /\ submitPreQuestionnaire(case, Owner, 1).err = "forbidden-not-lawyer-stage"
  /\ submitPreQuestionnaireEndpoint(case, Invited, 1).err = "forbidden-not-locked"

\* C12: an accepted submitPreQuestionnaire that leaves both pre-questionnaires
\* submitted persists workflowStatus = CM; one that leaves only one of them
\* submitted leaves workflowStatus as it was; a rejected one changes nothing.
C12_BothSubmittedMovesToCM ==
  \A a \in Actors, ans \in AnswerLists :
     LET r == submitPreQuestionnaire(case, a, ans)
         both == pqSubmitted(r.doc.preQuestionnaireUser1)
                   /\ pqSubmitted(r.doc.preQuestionnaireUser2)
     IN /\ (r.ok /\ both) => r.doc.workflowStatus = "CM"
        /\ (r.ok /\ ~both) => /\ r.doc.workflowStatus = case.workflowStatus
                              /\ Len(r.saves) = 1
        /\ ~r.ok => r.doc = case

\* C12 witness: both parties have submitted and the case is in CM with no
\* case manager assigned, so the stage was set by the second submission.
C12_Witness ==
  /\ case.workflowStatus = "CM" /\ case.assignedCaseManager = NULL
  /\ pqSubmitted(case.preQuestionnaireUser1)
  /\ case.preQuestionnaireUser1.submittedBy = Owner
  /\ pqSubmitted(case.preQuestionnaireUser2)
  /\ case.preQuestionnaireUser2.submittedBy = Invited

\* The conditions under which selectLawyer accepts.
SelectLawyerAcceptable(c, a, l) ==
  /\ c.fullyLocked /\ areAllStepsSubmitted(c)
  /\ a \in Parties(c)
  /\ pqSubmitted(c.preQuestionnaireUser1) /\ pqSubmitted(c.preQuestionnaireUser2)
  /\ l \in Lawyers

\* C13: selectLawyer is accepted only when the case is fully locked with all
\* seven steps submitted, the actor is the owner or the invited user, both
\* pre-questionnaires are submitted and the lawyer exists; otherwise it is
\* rejected and neither party's selectedLawyer changes.
C13_SelectLawyerPreconditions ==
  \A a \in Actors, l \in Lawyers \cup {UnknownLawyer}, f \in BOOLEAN :
     LET r == selectLawyer(case, a, l, f) IN
     /\ r.ok => SelectLawyerAcceptable(case, a, l)
     /\ ~SelectLawyerAcceptable(case, a, l) =>
           /\ ~r.ok /\ r.saves = <<>>
           /\ pqSelected(r.doc.preQuestionnaireUser1) = pqSelected(case.preQuestionnaireUser1)
           /\ pqSelected(r.doc.preQuestionnaireUser2) = pqSelected(case.preQuestionnaireUser2)

\* C13 witness: on a sealed case with both pre-questionnaires submitted the
\* owner holds lawyer 1 and the invited user lawyer 2.
C13_Witness ==
  /\ case.fullyLocked /\ areAllStepsSubmitted(case)
  /\ pqSubmitted(case.preQuestionnaireUser1) /\ pqSubmitted(case.preQuestionnaireUser2)
  /\ pqSelected(case.preQuestionnaireUser1) = 1
  /\ pqSelected(case.preQuestionnaireUser2) = 2

\* C14: on a fully locked case, updateStep by a non-privileged actor is
\* rejected as forbidden for every step 1..7 and persists nothing: all step
\* payloads and step statuses are unchanged.
C14_FullyLockedRefusesUpdate ==
  case.fullyLocked =>
     \A n \in Steps, data \in Payloads, a \in Actors :
        LET r == updateStep(case, n, data, a, FALSE) IN
        /\ ~r.ok /\ r.err \in {"forbidden-fully-locked", "forbidden-cm-stage"}
        /\ r.saves = <<>>
        /\ r.doc.step = case.step /\ r.doc.status = case.status

\* C14 witness: a case sealed by the owner, outside the CM stage, where the
\* owner's and the invited user's updates are refused because of the lock.
C14_Witness ==
  /\ SealedByCascade(case) /\ case.workflowStatus = "DRAFT"
  /\ updateStep(case, 1, 1, Owner, FALSE).err = "forbidden-fully-locked"
  /\ updateStep(case, 3, 1, Invited, FALSE).err = "forbidden-fully-locked"
  /\ updateStep(case, 7, 1, Owner, FALSE).err = "forbidden-fully-locked"

\* C15: while workflowStatus = CM, updateStep by an actor that is neither
\* privileged nor the assigned case manager (the owner and the invited user
\* included) is rejected as forbidden and leaves the case unchanged.
C15_CmStageManagerExclusive ==
  case.workflowStatus = "CM" =>
     \A n \in Steps, data \in Payloads, a \in Actors :
        a # case.assignedCaseManager =>
           LET r == updateStep(case, n, data, a, FALSE) IN
           /\ ~r.ok /\ r.err = "forbidden-cm-stage"
           /\ r.saves = <<>> /\ r.doc = case

\* C15 witness: an unlocked case in the CM stage assigned to the manager: the
\* owner and the invited user are refused, the assigned manager is not.
C15_Witness ==
  /\ case.workflowStatus = "CM" /\ ~case.fullyLocked
  /\ case.assignedCaseManager = Manager /\ case.invitedUser = Invited
  /\ updateStep(case, 1, 1, Owner, FALSE).err = "forbidden-cm-stage"
  /\ updateStep(case, 3, 1, Invited, FALSE).err = "forbidden-cm-stage"
  /\ updateStep(case, 1, 1, Manager, FALSE).ok

\* The approval call r left the approval record and the stage of c as they were.
ApprovalRefused(c, r) ==
  /\ ~r.ok /\ r.saves = <<>>
  /\ r.doc.approval = c.approval /\ r.doc.workflowStatus = c.workflowStatus

\* C16: unless the case is fully locked and all seven steps are submitted,
\* each of approveCaseByUser, approveCaseByLawyer and approveCaseByManager is
\* rejected and leaves the approval record and workflowStatus unchanged.
C16_ApprovalsRequireSealedCase ==
  ~(case.fullyLocked /\ areAllStepsSubmitted(case)) =>
     /\ \A a \in Actors : ApprovalRefused(case, approveCaseByUser(case, a))
     /\ \A l \in Lawyers \cup {UnknownLawyer} :
           ApprovalRefused(case, approveCaseByLawyer(case, l))
     /\ ApprovalRefused(case, approveCaseByManager(case, Manager))

\* C17: approveCaseByLawyer(lawyerId) is rejected as forbidden, persisting
\* nothing, unless lawyerId is the selectedLawyer of one of the two
\* pre-questionnaires; when accepted it persists lawyerApproved = true and
\* approvedLawyer = lawyerId in one write and changes neither workflowStatus
\* nor fullyLocked.
C17_LawyerApprovalBySelectedLawyer ==
  \A l \in Lawyers \cup {UnknownLawyer} :
     LET r == approveCaseByLawyer(case, l)
         sel == \/ pqSelected(case.preQuestionnaireUser1) = l
                \/ pqSelected(case.preQuestionnaireUser2) = l
     IN /\ ~sel => /\ ~r.ok /\ r.err = "forbidden-lawyer-not-selected"
                   /\ r.saves = <<>> /\ r.doc = case
        /\ sel => /\ r.ok /\ Len(r.saves) = 1
                  /\ r.doc.approval.lawyerApproved
                  /\ r.doc.approval.approvedLawyer = l
                  /\ r.doc.workflowStatus = case.workflowStatus
                  /\ r.doc.fullyLocked = case.fullyLocked
                  /\ r.notified = {}

\* C17 witness: lawyer 2, selected by the invited user only, has approved;
\* lawyer 1 is the owner's and the unknown lawyer is refused.
C17_Witness ==
  /\ pqSelected(case.preQuestionnaireUser1) = 1
  /\ pqSelected(case.preQuestionnaireUser2) = 2
  /\ case.approval.lawyerApproved /\ case.approval.approvedLawyer = 2
  /\ ~approveCaseByLawyer(case, UnknownLawyer).ok

\* C18: every step of the system that turns fullyLocked from false to true
\* is an accepted updateStep(7) on a case with invitedUser attached and
\* steps 1..6 submitted.
C18_OnlyStep7Locks ==
  [][(~case.fullyLocked /\ case'.fullyLocked) =>
        /\ case.invitedUser # NULL /\ Steps1To6Submitted(case)
        /\ \E data \in Payloads, a \in Actors, p \in BOOLEAN :
              LET r == updateStep(case, 7, data, a, p) IN
              r.ok /\ case' = r.doc]_vars

C20_UnlockIdempotent ==
  \A a \in Actors :
     LET u1 == unlockCase(case, a) IN
     u1.ok => LET u2 == unlockCase(u1.doc, a) IN
              /\ \A i \in Steps : ~u1.doc.status[i].locked
              /\ u2.ok /\ u2.doc = u1.doc

\* A rejected call r on the document c persisted nothing.
RejectedUnchanged(c, r) == ~r.ok => (r.saves = << >> /\ r.doc = c)

\* C21: every rejected call of updateStep, unlockCase,
\* submitPreQuestionnaire, selectLawyer, approveCaseByUser,
\* approveCaseByLawyer, approveCaseByManager, assignCaseManager or
\* changeWorkflowStatus persists nothing: the case is identical to its state
\* before the call.
C21_RejectedCallsPersistNothing ==
  /\ \A n \in 0..(NumSteps + 1), data \in Payloads, a \in Actors, p \in BOOLEAN :
        RejectedUnchanged(case, updateStep(case, n, data, a, p))
  /\ \A a \in Actors : RejectedUnchanged(case, unlockCase(case, a))
  /\ \A a \in Actors, ans \in AnswerLists :
        RejectedUnchanged(case, submitPreQuestionnaire(case, a, ans))
  /\ \A a \in Actors, l \in Lawyers \cup {UnknownLawyer}, f \in BOOLEAN :
        RejectedUnchanged(case, selectLawyer(case, a, l, f))
  /\ \A a \in Actors : RejectedUnchanged(case, approveCaseByUser(case, a))
  /\ \A l \in Lawyers \cup {UnknownLawyer} :
        RejectedUnchanged(case, approveCaseByLawyer(case, l))
  /\ RejectedUnchanged(case, approveCaseByManager(case, Manager))
  /\ \A m \in {Manager, NULL} :
        RejectedUnchanged(case, assignCaseManager(case, m, Manager))
  /\ \A st \in WorkflowStatuses :
        RejectedUnchanged(case, changeWorkflowStatus(case, st, Manager))

\* C21 witness: an unlocked draft with the owner's steps 1, 2, 5, 6 submitted
\* and step 3 missing: the owner's step 7 is refused for the missing steps
\* and has left no trace, and an invalid step, an invalid status, an unlock
\* and a lawyer selection are refused too.
C21_Witness ==
  /\ ~case.fullyLocked /\ case.workflowStatus = "DRAFT" /\ case.invitedUser = Invited
  /\ \A n \in {1, 2, 5, 6} : case.status[n].submitted
  /\ ~case.status[3].submitted /\ ~case.status[7].submitted
  /\ case.step[7] = EmptyPayload
  /\ updateStep(case, 7, 1, Owner, FALSE).err = "missing-steps"
  /\ updateStep(case, 0, 1, Owner, FALSE).err = "invalid-step"
  /\ changeWorkflowStatus(case, "DRAFT", Manager).err = "invalid-status"
  /\ unlockCase(case, Manager).err = "not-locked"
  /\ selectLawyer(case, Owner, 1, FALSE).err = "not-locked"

\* The call with result r is unaffected by the mail service failing on any
\* of its notifications: it succeeds with the same writes.
SenderFailureHidden(c, r, afterFirst) ==
  r.ok => \A failing \in SUBSET r.notified :
             LET f == withFailingSender(c, r, afterFirst, failing) IN
             /\ f.ok /\ f.saves = r.saves /\ f.doc = r.doc
             /\ f.notified = r.notified \ failing

\* C22: a failure of the notification sender during updateStep,
\* submitPreQuestionnaire, selectLawyer, approveCaseByUser,
\* approveCaseByManager, assignCaseManager or changeWorkflowStatus is never
\* surfaced: the call still succeeds and persists every write it persists
\* with a working sender, a workflowStatus advance that follows a
\* notification included.
C22_NotificationFailureHidden ==
  /\ \A n \in Steps, data \in Payloads, a \in Actors, p \in BOOLEAN :
        LET r == updateStep(case, n, data, a, p) IN
        SenderFailureHidden(case, r, r.notified)
  /\ \A a \in Actors, ans \in AnswerLists :
        SenderFailureHidden(case, submitPreQuestionnaire(case, a, ans),
                            {"preQuestionnaireUpdate"})
  /\ \A a \in Actors, l \in Lawyers, f \in BOOLEAN :
        LET r == selectLawyer(case, a, l, f) IN
        SenderFailureHidden(case, r, r.notified)
  /\ \A a \in Actors : SenderFailureHidden(case, approveCaseByUser(case, a), {})
  /\ SenderFailureHidden(case, approveCaseByManager(case, Manager), {})
  /\ LET r == assignCaseManager(case, Manager, Manager) IN
     SenderFailureHidden(case, r, r.notified)
  /\ \A st \in WorkflowStatuses :
        LET r == changeWorkflowStatus(case, st, Manager) IN
        SenderFailureHidden(case, r, r.notified)

\* C22 witness: in the lawyer stage the owner has submitted; the invited
\* user's submission, with the mail service failing on every notification,
\* still persists both writes and ends in the CM stage.
C22_Witness ==
  /\ case.workflowStatus = "LAWYER"
  /\ pqSubmitted(case.preQuestionnaireUser1)
  /\ ~pqSubmitted(case.preQuestionnaireUser2)
  /\ LET r == submitPreQuestionnaire(case, Invited, 1)
         f == withFailingSender(case, r, {"preQuestionnaireUpdate"}, r.notified)
     IN /\ r.ok /\ Len(r.saves) = 2 /\ r.notified # {}
        /\ f.ok /\ f.notified = {} /\ f.doc.workflowStatus = "CM"

\* C23: through the step-update endpoint a caller with a privileged role may
\* update any step, also on a fully locked case: steps 1..6 are accepted and
\* step 7 is never refused as forbidden.
C23_PrivilegedEndpointUpdate ==
  \A n \in Steps, data \in Payloads :
     LET r == updateStepEndpoint(case, n, data, Manager) IN
     /\ n # 7 => r.ok
     /\ r.err \notin {"forbidden-fully-locked", "forbidden-cm-stage", "forbidden"}

\* C29: an accepted updateStep for a step n in 1..6 overwrites step n's
\* payload, sets its status submitted with submittedBy = actor, and leaves
\* unchanged every step's locked flag, fullyLocked, workflowStatus, the
\* payloads and statuses of the other six steps, both pre-questionnaires and
\* the approval record.
C29_StepUpdateFrame ==
  \A n \in 1..6, data \in Payloads, a \in Actors, p \in BOOLEAN :
     LET r == updateStep(case, n, data, a, p) IN
     r.ok =>
        /\ r.doc.step[n] = data
        /\ r.doc.status[n].submitted /\ r.doc.status[n].submittedBy = a
        /\ \A i \in Steps : r.doc.status[i].locked = case.status[i].locked
        /\ r.doc.fullyLocked = case.fullyLocked
        /\ r.doc.workflowStatus = case.workflowStatus
        /\ \A i \in Steps \ {n} : /\ r.doc.step[i] = case.step[i]
                                  /\ r.doc.status[i] = case.status[i]
        /\ r.doc.preQuestionnaireUser1 = case.preQuestionnaireUser1
        /\ r.doc.preQuestionnaireUser2 = case.preQuestionnaireUser2
        /\ r.doc.approval = case.approval

\* C29 witness: a draft where the invited user has saved step 3 and nothing
\* else is submitted: step 3 is submitted, not locked, the case not locked.
C29_Witness ==
  /\ case.workflowStatus = "DRAFT" /\ ~case.fullyLocked
  /\ case.step[3] # EmptyPayload
  /\ case.status[3].submitted /\ case.status[3].submittedBy = Invited
  /\ \A i \in Steps : ~case.status[i].locked
  /\ \A i \in Steps \ {3} : ~case.status[i].submitted /\ case.step[i] = EmptyPayload
  /\ case.approval = emptyApproval

\* The fields of a pre-questionnaire that unlockCase must keep.
KeptPreQuestionnaire(before, after) ==
  /\ after.present = before.present
  /\ before.present => /\ after.answers = before.answers
                       /\ after.submitted = before.submitted
                       /\ after.submittedBy = before.submittedBy
                       /\ after.selectedLawyer = before.selectedLawyer

\* C30: an accepted unlockCase leaves unchanged every step's payload and
\* submitted, submittedBy, submittedAt, both pre-questionnaires' answers,
\* submitted flag and selectedLawyer, the approval record and workflowStatus.
C30_UnlockFrame ==
  \A a \in Actors :
     LET r == unlockCase(case, a) IN
     r.ok =>
        /\ r.doc.step = case.step
        /\ \A i \in Steps : /\ r.doc.status[i].submitted = case.status[i].submitted
                            /\ r.doc.status[i].submittedBy = case.status[i].submittedBy
                            /\ r.doc.status[i].submittedAt = case.status[i].submittedAt
        /\ KeptPreQuestionnaire(case.preQuestionnaireUser1, r.doc.preQuestionnaireUser1)
        /\ KeptPreQuestionnaire(case.preQuestionnaireUser2, r.doc.preQuestionnaireUser2)
        /\ r.doc.approval = case.approval
        /\ r.doc.workflowStatus = case.workflowStatus
        /\ r.doc.owner = case.owner /\ r.doc.invitedUser = case.invitedUser
        /\ r.doc.assignedCaseManager = case.assignedCaseManager

\* C30 witness: a case unlocked by the manager after both parties submitted
\* their pre-questionnaires and chose lawyers: submissions, selections and
\* approvals are still there.
C30_Witness ==
  /\ ~case.fullyLocked
  /\ \A i \in Steps : /\ ~case.status[i].locked /\ case.status[i].unlockedBy = Manager
                      /\ case.status[i].submitted /\ case.step[i] # EmptyPayload
  /\ pqSubmitted(case.preQuestionnaireUser1) /\ pqSubmitted(case.preQuestionnaireUser2)
  /\ pqSelected(case.preQuestionnaireUser1) = 1
  /\ pqSelected(case.preQuestionnaireUser2) = 2
  /\ quorumReached(case.approval)
  /\ case.workflowStatus = "CM"

(***************************************************************************)
(* Properties of overlapping calls, checked under ConcSpec.                *)
(***************************************************************************)
AllReturned == \A p \in 1..Len(calls) : returned(calls[p])

C25_SingleAtomicWrite ==
  \A p \in 1..Len(calls) :
     (calls[p].saved > 0 /\ calls[p].base # calls[p].loaded) => returned(calls[p])

\* C26: if no selectLawyer call used force, the two parties' selectedLawyer
\* are never the same lawyer, in any persisted state of any interleaving.
C26_ExclusiveUnderInterleaving ==
  (\A p \in 1..Len(calls) : ~calls[p].force)
  => ~(/\ pqSelected(case.preQuestionnaireUser1) # NoLawyer
       /\ pqSelected(case.preQuestionnaireUser1) =
            pqSelected(case.preQuestionnaireUser2))

\* C27: once the write that sets fullyLocked = true is persisted, no write
\* of a non-privileged updateStep changes the payload or the status of a
\* step 1..6.
C27_NoWriteAfterSeal ==
  [][case.fullyLocked =>
        \A n \in 1..6 : /\ case'.step[n] = case.step[n]
                        /\ case'.status[n] = case.status[n]]_vars

\* C28: once overlapping approveCaseByUser and approveCaseByManager calls,
\* the first of which loaded a case without the quorum, have all returned
\* and the three approvals are persisted, workflowStatus is LAWYER.
C28_QuorumNotLost ==
  (/\ Len(calls) >= 1 /\ AllReturned
   /\ \A p \in 1..Len(calls) :
         calls[p].op \in {"approveCaseByUser", "approveCaseByManager"} /\ calls[p].ok
   /\ ~quorumReached(calls[1].loaded.approval)
   /\ quorumReached(case.approval))
  => case.workflowStatus = "LAWYER"

(***************************************************************************)
(* Properties of single calls, checked under Spec (continued).             *)
(***************************************************************************)
\* Every step whose lock a write of the call from c with result r sets is
\* submitted in that write.  The call sets the lock of a step that was not
\* locked and, when cascade holds, of every step.
LockedOnlySubmitted(c, r, cascade) ==
  \A k \in 1..Len(r.saves), i \in Steps :
     (r.saves[k].status[i].locked /\ (cascade \/ ~c.status[i].locked))
        => r.saves[k].status[i].submitted

\* C31: whenever an operation sets status.step_i.locked to true, the step is
\* submitted in the state the operation produces, for every step 1..7; the
\* step-7 cascade, which sets all seven locks, is the only operation that
\* sets one.
C31_LockFollowsSubmission ==
  /\ \A n \in Steps, data \in Payloads, a \in Actors, p \in BOOLEAN :
        LET r == updateStep(case, n, data, a, p) IN
        LockedOnlySubmitted(case, r, r.ok /\ n = 7)
  /\ \A a \in Actors : LockedOnlySubmitted(case, unlockCase(case, a), FALSE)
  /\ \A a \in Actors, ans \in AnswerLists :
        LockedOnlySubmitted(case, submitPreQuestionnaire(case, a, ans), FALSE)
  /\ \A a \in Actors, l \in Lawyers, f \in BOOLEAN :
        LockedOnlySubmitted(case, selectLawyer(case, a, l, f), FALSE)
  /\ LockedOnlySubmitted(case, deleteCaseDataForPartner(case), FALSE)
  /\ \A a \in Actors : LockedOnlySubmitted(case, approveCaseByUser(case, a), FALSE)
  /\ \A l \in Lawyers : LockedOnlySubmitted(case, approveCaseByLawyer(case, l), FALSE)
  /\ LockedOnlySubmitted(case, approveCaseByManager(case, Manager), FALSE)
  /\ LockedOnlySubmitted(case, assignCaseManager(case, Manager, Manager), FALSE)
  /\ \A st \in WorkflowStatuses :
        LockedOnlySubmitted(case, changeWorkflowStatus(case, st, Manager), FALSE)

\* C31 witness: a case unlocked after its seal, every step submitted and
\* none locked, on which the owner's step 7 runs the cascade again: all
\* seven locks are set and all seven steps are submitted.
C31_Witness ==
  /\ ~case.fullyLocked /\ case.workflowStatus = "DRAFT"
  /\ \A i \in Steps : case.status[i].submitted /\ ~case.status[i].locked
                        /\ case.status[i].unlockedBy = Manager
  /\ LET r == updateStep(case, 7, 1, Owner, FALSE) IN
     /\ r.ok
     /\ \A i \in Steps : r.doc.status[i].locked /\ r.doc.status[i].submitted

\* C32: assignCaseManager sets assignedCaseManager = managerId and
\* workflowStatus = CM whatever the workflow status was, and leaves
\* fullyLocked, the step payloads and statuses, both pre-questionnaires and
\* the approval record unchanged.
C32_AssignCaseManagerFrame ==
  \A m \in Actors, a \in Actors :
     LET r == assignCaseManager(case, m, a) IN
     /\ r.ok /\ Len(r.saves) = 1
     /\ r.doc.assignedCaseManager = m
     /\ r.doc.workflowStatus = "CM"
     /\ r.doc.fullyLocked = case.fullyLocked
     /\ r.doc.step = case.step
     /\ r.doc.status = case.status
     /\ r.doc.preQuestionnaireUser1 = case.preQuestionnaireUser1
     /\ r.doc.preQuestionnaireUser2 = case.preQuestionnaireUser2
     /\ r.doc.approval = case.approval

\* C32 witness: a sealed case in the lawyer stage with no manager assigned
\* and the owner's pre-questionnaire submitted: the assignment moves it to
\* the CM stage and keeps the lock and the submission.
C32_Witness ==
  /\ case.workflowStatus = "LAWYER" /\ case.fullyLocked
  /\ case.assignedCaseManager = NULL
  /\ pqSubmitted(case.preQuestionnaireUser1)
  /\ ~pqSubmitted(case.preQuestionnaireUser2)
  /\ LET r == assignCaseManager(case, Manager, Manager) IN
     /\ r.doc.workflowStatus = "CM" /\ r.doc.assignedCaseManager = Manager
     /\ r.doc.fullyLocked /\ pqSubmitted(r.doc.preQuestionnaireUser1)

\* C33: deleteCaseDataForPartner keeps the case, empties the payloads of
\* steps 3 and 4 and unsets their submitted, submittedBy, submittedAt, and
\* leaves unchanged the payloads and statuses of steps 1, 2, 5, 6, 7, the
\* owner, fullyLocked, every step's locked flag, workflowStatus and the
\* approval record.
C33_RemovePartnerFrame ==
  LET r == deleteCaseDataForPartner(case) IN
  /\ r.ok /\ Len(r.saves) = 1
  /\ \A n \in {3, 4} : /\ r.doc.step[n] = EmptyPayload
                       /\ ~r.doc.status[n].submitted
                       /\ r.doc.status[n].submittedBy = NULL
                       /\ ~r.doc.status[n].submittedAt
  /\ \A n \in Steps \ {3, 4} : /\ r.doc.step[n] = case.step[n]
                               /\ r.doc.status[n] = case.status[n]
  /\ \A n \in Steps : r.doc.status[n].locked = case.status[n].locked
  /\ r.doc.owner = case.owner
  /\ r.doc.fullyLocked = case.fullyLocked
  /\ r.doc.workflowStatus = case.workflowStatus
  /\ r.doc.approval = case.approval

\* C33 witness: the partner's data was removed from a sealed case: steps 3
\* and 4 are empty and unsubmitted but still locked, the owner's steps are
\* submitted and the case is still fully locked.
C33_Witness ==
  /\ case.fullyLocked
  /\ \A n \in {3, 4} : /\ case.step[n] = EmptyPayload
                       /\ ~case.status[n].submitted
                       /\ case.status[n].submittedBy = NULL
                       /\ case.status[n].locked
  /\ \A n \in Steps \ {3, 4} : /\ case.step[n] # EmptyPayload
                               /\ case.status[n].submitted
                               /\ case.status[n].submittedBy = Owner
                               /\ case.status[n].locked

\* C34: through the step-update endpoint a non-privileged owner submits
\* only steps 1, 2, 5, 6, 7, a non-privileged invited user only steps 3, 4,
\* and a non-privileged user who is neither is forbidden; the status an
\* accepted call writes has submittedBy = owner for steps 1, 2, 5, 6, 7 and
\* submittedBy = invitedUser for steps 3, 4.
C34_EndpointStepEligibility ==
  \A n \in Steps, data \in Payloads, u \in EndUsers :
     LET r == updateStepEndpoint(case, n, data, u) IN
     /\ (u # case.owner /\ u # case.invitedUser) => r.err = "forbidden"
     /\ r.ok =>
          \/ /\ u = case.owner /\ n \in {1, 2, 5, 6, 7}
             /\ r.doc.status[n].submittedBy = case.owner
          \/ /\ u # case.owner /\ u = case.invitedUser /\ n \in {3, 4}
             /\ r.doc.status[n].submittedBy = case.invitedUser

\* C34 witness: an unlocked draft where the owner has submitted step 1 and
\* the invited user step 3; each is refused the other's step and an
\* outsider is refused every step.
C34_Witness ==
  /\ ~case.fullyLocked /\ case.workflowStatus = "DRAFT"
  /\ case.status[1].submittedBy = Owner
  /\ case.status[3].submittedBy = Invited
  /\ updateStepEndpoint(case, 3, 1, Owner).err = "forbidden-step"
  /\ updateStepEndpoint(case, 1, 1, Invited).err = "forbidden-step"
  /\ updateStepEndpoint(case, 2, 1, Owner).ok
  /\ updateStepEndpoint(case, 4, 1, Invited).ok
  /\ \A n \in Steps : updateStepEndpoint(case, n, 1, Outsider).err = "forbidden"

ApprovalFlags ==
  {"user1Approved", "user2Approved", "lawyerApproved", "caseManagerApproved"}

\* No write of the call with result r resets an approval flag that is true
\* in c, and none sets a flag outside own.
FlagsKept(c, r, own) ==
  \A k \in 1..Len(r.saves), f \in ApprovalFlags :
     /\ c.approval[f] => r.saves[k].approval[f]
     /\ (r.saves[k].approval[f] /\ ~c.approval[f]) => f \in own

\* C35: each approval call sets only its own flag (the owner user1Approved,
\* the invited user user2Approved, the lawyer lawyerApproved, the manager
\* caseManagerApproved), and no operation resets a flag that is true.
C35_ApprovalFlagsMonotonic ==
  /\ \A a \in Actors :
        LET r == approveCaseByUser(case, a) IN
        /\ FlagsKept(case, r, IF a = case.owner THEN {"user1Approved"}
                              ELSE {"user2Approved"})
        /\ r.ok => r.doc.approval[IF a = case.owner THEN "user1Approved"
                                  ELSE "user2Approved"]
  /\ \A l \in Lawyers :
        LET r == approveCaseByLawyer(case, l) IN
        /\ FlagsKept(case, r, {"lawyerApproved"})
        /\ r.ok => r.doc.approval.lawyerApproved
  /\ LET r == approveCaseByManager(case, Manager) IN
     /\ FlagsKept(case, r, {"caseManagerApproved"})
     /\ r.ok => r.doc.approval.caseManagerApproved
  /\ \A a \in Actors : FlagsKept(case, unlockCase(case, a), {})
  /\ \A st \in WorkflowStatuses :
        FlagsKept(case, changeWorkflowStatus(case, st, Manager), {})
  /\ \A n \in Steps, data \in Payloads, a \in Actors, p \in BOOLEAN :
        FlagsKept(case, updateStep(case, n, data, a, p), {})
  /\ FlagsKept(case, deleteCaseDataForPartner(case), {})
  /\ \A a \in Actors, ans \in AnswerLists :
        FlagsKept(case, submitPreQuestionnaire(case, a, ans), {})
  /\ \A a \in Actors, l \in Lawyers, f \in BOOLEAN :
        FlagsKept(case, selectLawyer(case, a, l, f), {})
  /\ \A m \in Actors : FlagsKept(case, assignCaseManager(case, m, Manager), {})

\* C35 witness: a case reopened for payment after the quorum and the
\* lawyer's approval: unlocked, in the PAID stage, all four flags true.
C35_Witness ==
  /\ case.workflowStatus = "PAID" /\ ~case.fullyLocked
  /\ \A f \in ApprovalFlags : case.approval[f]
  /\ \A i \in Steps : ~case.status[i].locked

\* Every write of the call with result r keeps workflowStatus in its enum
\* and does not return a case that has left DRAFT to DRAFT.
StageKept(c, r) ==
  \A k \in 1..Len(r.saves) :
     /\ r.saves[k].workflowStatus \in WorkflowStatuses
     /\ c.workflowStatus # "DRAFT" => r.saves[k].workflowStatus # "DRAFT"

\* C36: workflowStatus is always one of DRAFT, CM, PAID, LAWYER; it is
\* DRAFT at creation; updateStep, the step-7 cascade included, and
\* unlockCase never change it; once it has left DRAFT no operation returns
\* it to DRAFT.
C36_WorkflowStatusNeverBackToDraft ==
  /\ case.workflowStatus \in WorkflowStatuses
  /\ create(case.owner).workflowStatus = "DRAFT"
  /\ \A n \in Steps, data \in Payloads, a \in Actors, p \in BOOLEAN :
        LET r == updateStep(case, n, data, a, p) IN
        StageKept(case, r) /\ r.doc.workflowStatus = case.workflowStatus
  /\ \A a \in Actors :
        LET r == unlockCase(case, a) IN
        StageKept(case, r) /\ r.doc.workflowStatus = case.workflowStatus
  /\ \A a \in Actors, ans \in AnswerLists :
        StageKept(case, submitPreQuestionnaire(case, a, ans))
  /\ \A a \in Actors, l \in Lawyers, f \in BOOLEAN :
        StageKept(case, selectLawyer(case, a, l, f))
  /\ StageKept(case, deleteCaseDataForPartner(case))
  /\ \A a \in Actors : StageKept(case, approveCaseByUser(case, a))
  /\ \A l \in Lawyers : StageKept(case, approveCaseByLawyer(case, l))
  /\ StageKept(case, approveCaseByManager(case, Manager))
  /\ \A m \in Actors : StageKept(case, assignCaseManager(case, m, Manager))
  /\ \A st \in WorkflowStatuses :
        StageKept(case, changeWorkflowStatus(case, st, Manager))
  /\ StageKept(case, attachInvitedUser(case, Invited))

\* C36 witness: a case in the PAID stage, unlocked, every step submitted:
\* the owner's step 7 seals it again and it is still in the PAID stage, and
\* a change to DRAFT is refused.
C36_Witness ==
  /\ case.workflowStatus = "PAID" /\ ~case.fullyLocked
  /\ \A i \in Steps : case.status[i].submitted
  /\ LET r == updateStep(case, 7, 1, Owner, FALSE) IN
     r.ok /\ r.doc.fullyLocked /\ r.doc.workflowStatus = "PAID"
  /\ unlockCase(case, Manager).doc.workflowStatus = "PAID"
  /\ ~changeWorkflowStatus(case, "DRAFT", Manager).ok

(***************************************************************************)
(* Properties of the invitation, checked under InviteSpec.                 *)
(***************************************************************************)
\* C37: invitedUser is set or replaced only for a case that has a pending
\* invite (inviteToken set) and only together with clearing invitedEmail,
\* inviteToken and inviteTokenExpires.
C37_InvitedUserOnlyByPendingInvite ==
  [][case'.invitedUser # case.invitedUser =>
        /\ case.inviteToken # NoToken
        /\ case'.invitedEmail = NULL
        /\ case'.inviteToken = NoToken
        /\ ~case'.inviteTokenExpires]_vars

====
